---- MODULE Spec2Model ----
(***************************************************************************)
(* A model of the AI_System application: the clause segmenter of           *)
(* utils.extract_and_store_clauses, the module-level FAISS index of        *)
(* views.py (build_faiss_index / semantic_search), the upload, delete and  *)
(* progress handlers, and the process_query pipeline.                      *)
(*                                                                         *)
(* Texts are sequences of one-character strings, so that len(), strip()    *)
(* and split("\n") are computed as Python computes them.                   *)
(***************************************************************************)
EXTENDS Integers, Sequences, FiniteSets, TLC

(***************************************************************************)
(* Bounds of the model.                                                    *)
(***************************************************************************)
\* Pages of one segmenter input (SpecSeg).
MaxPages == 3
\* upload_document requests handled.
MaxUploads == 2
\* delete_document requests handled.
MaxDeletes == 1
\* process_query requests handled (SpecQuery).
MaxQueries == 1
\* upload_document and delete_document requests beside a query (SpecQuery).
QueryUploads == 1
QueryDeletes == 1
\* cache entries that expire (SpecCache).
MaxExpiries == 1
\* process_query requests handled side by side (SpecPair).
PairQueries == 2

(***************************************************************************)
(* Program constants.                                                      *)
(***************************************************************************)
\* utils.py:23  "if len(line) < 40"
Threshold == 40
\* views.py:183  semantic_search(query_text, top_k=5)
TopK == 5

(***************************************************************************)
(* Text helpers: str.strip(), str.split("\n"), "\n".join(), " ".join().    *)
(***************************************************************************)
NL == "\n"

\* The whitespace str.strip() removes, as far as the inputs here hold any.
Whitespace == {" ", "\t", NL}

RECURSIVE LStrip(_)
LStrip(s) ==
    IF s # <<>> /\ Head(s) \in Whitespace THEN LStrip(Tail(s)) ELSE s

RECURSIVE RStrip(_)
RStrip(s) ==
    IF s # <<>> /\ s[Len(s)] \in Whitespace
    THEN RStrip(SubSeq(s, 1, Len(s) - 1))
    ELSE s

Strip(s) == RStrip(LStrip(s))

\* sep.join(parts)
RECURSIVE Join(_, _)
Join(sep, parts) ==
    IF parts = <<>> THEN <<>>
    ELSE IF Len(parts) = 1 THEN parts[1]
    ELSE parts[1] \o sep \o Join(sep, Tail(parts))

\* s.split("\n"): always at least one piece, the pieces between the breaks.
RECURSIVE FirstNL(_, _)
FirstNL(s, i) ==
    IF i > Len(s) THEN 0
    ELSE IF s[i] = NL THEN i
    ELSE FirstNL(s, i + 1)

RECURSIVE SplitNL(_)
SplitNL(s) ==
    LET k == FirstNL(s, 1) IN
    IF k = 0 THEN <<s>>
    ELSE <<SubSeq(s, 1, k - 1)>> \o SplitNL(SubSeq(s, k + 1, Len(s)))

RECURSIVE Rep(_, _)
Rep(c, n) == IF n = 0 THEN <<>> ELSE <<c>> \o Rep(c, n - 1)

(***************************************************************************)
(* The clause segmenter, utils.py:11-32.                                   *)
(***************************************************************************)
\* utils.py:12-15: the page texts joined by line breaks.
FullText(pages) == Join(<<NL>>, pages)

\* utils.py:18: [p.strip() for p in full_text.split("\n") if p.strip()]
RECURSIVE StripNonEmpty(_)
StripNonEmpty(ps) ==
    IF ps = <<>> THEN <<>>
    ELSE LET p == Strip(Head(ps)) IN
         IF p # <<>> THEN <<p>> \o StripNonEmpty(Tail(ps))
         ELSE StripNonEmpty(Tail(ps))

RawClauses(pages) == StripNonEmpty(SplitNL(FullText(pages)))

\* utils.py:19-20: clauses = [], buffer = ""
SegStart == [buffer |-> <<>>, clauses |-> <<>>]

\* A segmenter that appends a short line without the separating blank.
SegStepNoSpace(st, line) ==
    IF Len(line) < Threshold
    THEN [st EXCEPT !.buffer = st.buffer \o line]
    ELSE [buffer  |-> <<>>,
          clauses |-> (IF st.buffer # <<>>
                       THEN Append(st.clauses, Strip(st.buffer))
                       ELSE st.clauses) \o <<line>>]

\* A segmenter that forgets the buffer when a long line arrives.
SegStepDropsBuffer(st, line) ==
    IF Len(line) < Threshold
    THEN [st EXCEPT !.buffer = st.buffer \o <<" ">> \o line]
    ELSE [buffer |-> <<>>, clauses |-> Append(st.clauses, line)]

\* utils.py:22-29: one iteration of "for line in raw_clauses".
SegStep(st, line) ==
    IF Len(line) < Threshold
    THEN [st EXCEPT !.buffer = st.buffer \o <<" ">> \o line]
    ELSE [buffer  |-> <<>>,
          clauses |-> (IF st.buffer # <<>>
                       THEN Append(st.clauses, Strip(st.buffer))
                       ELSE st.clauses) \o <<line>>]

\* utils.py:31-32: the flush after the loop.
SegFinish(st) ==
    IF st.buffer # <<>> THEN Append(st.clauses, Strip(st.buffer))
    ELSE st.clauses

RECURSIVE SegFold(_, _)
SegFold(st, lines) ==
    IF lines = <<>> THEN st ELSE SegFold(SegStep(st, Head(lines)), Tail(lines))

\* utils.py:18-32 as one function of the page texts.
Segment(pages) == SegFinish(SegFold(SegStart, RawClauses(pages)))

(***************************************************************************)
(* Inputs of the segmenter.                                                *)
(***************************************************************************)
Txt_Section1 == <<"S","e","c","t","i","o","n"," ","1">>
Txt_a == <<"a">>
Txt_b == <<"b">>
Txt_Section2 ==
    <<"S","e","c","t","i","o","n"," ","2"," ","f","u","l","l"," ",
      "c","l","a","u","s","e"," ","t","e","x","t"," ","h","e","r","e"," ","o","k">>

\* The line sequence of the worked example of the segmenter.
ExampleLines == <<Txt_Section1, Txt_a, Txt_b, Txt_Section2>>

\* Page texts: empty, blank, short, short with surrounding blanks, a page of
\* two lines, one character below the threshold (raw length at the threshold),
\* exactly at the threshold, and above it with surrounding blanks.
SegPageSet ==
    { <<>>,
      <<" ">>,
      <<"a">>,
      <<" ", "b", " ", "c", " ">>,
      <<"d", NL, " ", "e">>,
      Rep("x", Threshold - 1) \o <<" ">>,
      Rep("y", Threshold),
      <<" ">> \o Rep("z", Threshold + 1) \o <<"\t">> }

RECURSIVE SeqsUpTo(_, _)
SeqsUpTo(S, n) ==
    IF n = 0 THEN {<<>>}
    ELSE LET shorter == SeqsUpTo(S, n - 1) IN
         shorter \cup {Append(s, x) : s \in shorter, x \in S}

SegInputs == SeqsUpTo(SegPageSet, MaxPages) \cup {ExampleLines}


(***************************************************************************)
(* Uploaded files and query texts.                                         *)
(***************************************************************************)
Txt_wait == <<"w","a","i","t">>
Txt_no == <<"n","o">>
Txt_long == Rep("k", Threshold)

\* One short line: one clause.
PagesOneClause == <<Txt_wait>>
\* A long line, then a short one, on two pages: two clauses.
PagesTwoClauses == <<Txt_long, <<" ">> \o Txt_no>>
\* A PDF without text: no clause.
PagesNoText == <<<<>>, <<" ", NL>>>>

FileSet ==
    { [name |-> "a.pdf", pages |-> PagesOneClause],
      [name |-> "b.pdf", pages |-> PagesTwoClauses],
      [name |-> "e.pdf", pages |-> PagesNoText] }

QueryTexts == { <<"k","k","k">> }

(***************************************************************************)
(* The embedding and nearest-neighbour capabilities, views.py:21,36-39,    *)
(* 52-53.  An embedding is a vector of two integers computed from the      *)
(* text; IndexFlatL2 ranks by squared Euclidean distance.                  *)
(***************************************************************************)
RECURSIVE CountOf(_, _)
CountOf(c, s) ==
    IF s = <<>> THEN 0
    ELSE (IF Head(s) = c THEN 1 ELSE 0) + CountOf(c, Tail(s))

\* embedding_model.encode of one text
Embed(t) == <<Len(t), CountOf(" ", t)>>

\* embedding_model.encode(texts, convert_to_numpy=True)
Encode(texts) == [i \in 1..Len(texts) |-> Embed(texts[i])]

L2(u, v) == (u[1] - v[1]) * (u[1] - v[1]) + (u[2] - v[2]) * (u[2] - v[2])

\* The position (0-based) of S nearest to q; of equally near ones the lowest.
NearestOf(vecs, q, S) ==
    CHOOSE i \in S :
        \A j \in S : \/ L2(vecs[i + 1], q) < L2(vecs[j + 1], q)
                     \/ (L2(vecs[i + 1], q) = L2(vecs[j + 1], q) /\ i <= j)

RECURSIVE Ranked(_, _, _)
Ranked(vecs, q, S) ==
    IF S = {} THEN <<>>
    ELSE LET i == NearestOf(vecs, q, S) IN <<i>> \o Ranked(vecs, q, S \ {i})

\* IndexFlatL2.search(query_vec, k): the k nearest positions in ascending
\* distance, filled up with -1 when the index holds fewer than k vectors.
FaissSearch(vecs, q, k) ==
    LET ranked == Ranked(vecs, q, 0..(Len(vecs) - 1)) IN
    [j \in 1..k |-> IF j <= Len(ranked) THEN ranked[j] ELSE -1]

\* Python's list[idx] for a list held as a 1-based sequence: "error" stands
\* for IndexError.
PyIndexable(list, idx) == -Len(list) <= idx /\ idx < Len(list)
PyIndex(list, idx) == IF idx >= 0 THEN list[idx + 1] ELSE list[Len(list) + idx + 1]

\* A percentage of the work that is left instead of the work done.
ProgressRemaining(i, n) == 100 - ((i * 100) \div n)

\* utils.py:38  int((i + 1) / len(clauses) * 100); the float expression
\* equals the integer quotient for every len(clauses) below 50.
ProgressAfter(i, n) == ((i + 1) * 100) \div n

(***************************************************************************)
(* Python values and the responses of the reasoning capability.            *)
(***************************************************************************)
PyNone == [ty |-> "none"]
PyStr(x) == [ty |-> "str", s |-> x]
PyNum(x) == [ty |-> "num", n |-> x]
PyList(x) == [ty |-> "list", l |-> x]
\* A dict is a function from its keys.
PyDict(x) == [ty |-> "dict", d |-> x]
EmptyDict == PyDict(<<>>)

\* d[k] = v
DictSet(d, k, v) == (k :> v) @@ d
\* d.get(k, default)
DictGet(d, k, default) == IF k \in DOMAIN d THEN d[k] ELSE default

\* A response text is a sequence of pieces: a code fence with or without
\* the word json, prose, or the text of one JSON value.
Fence == [tok |-> "fence"]
FenceJson == [tok |-> "fence_json"]
Prose == [tok |-> "prose"]
Json(v) == [tok |-> "json", val |-> v]

IsFence(t) == t.tok \in {"fence", "fence_json"}

\* views.py:171-172, 216-217: only a text that starts with a fence is
\* touched, and then every fence in it is removed.
Unfence(r) ==
    IF r # <<>> /\ IsFence(r[1]) THEN SelectSeq(r, LAMBDA t : ~IsFence(t)) ELSE r

\* json.loads succeeds on the text of exactly one JSON value.
JsonOk(r) == Len(r) = 1 /\ r[1].tok = "json"

ParseResponses ==
    { <<FenceJson, Json(PyDict([age |-> PyNum(46)])), Fence>>,
      <<Prose>> }

DecisionObject ==
    [decision |-> PyStr("Approved"), amount |-> PyNum(100),
     justification |-> PyStr("covered"),
     referenced_clauses |-> PyList(<<Txt_no>>)]

DecisionResponses ==
    { \* the object asked for, fenced and bare
      <<FenceJson, Json(PyDict(DecisionObject)), Fence>>,
      <<Json(PyDict(DecisionObject))>>,
      \* prose around a fenced object, and prose alone
      <<Prose, FenceJson, Json(PyDict(DecisionObject)), Fence>>,
      <<Prose>>,
      \* objects without decision, without justification, without
      \* referenced_clauses
      <<Json(PyDict([amount |-> PyNum(5), justification |-> PyStr("unsure")]))>>,
      <<Json(PyDict([decision |-> PyStr("Rejected")]))>>,
      <<Json(PyDict([decision |-> PyStr("Rejected"),
                     justification |-> PyStr("excluded")]))>>,
      \* JSON values that are no object
      <<Json(PyList(<<>>))>>,
      <<Json(PyNone)>>,
      <<Json(PyNum(5))>> }

\* views.py:248-253: the body of the 500 response
ErrorBody ==
    [decision |-> PyStr("Needs Review"), amount |-> PyNone,
     justification |-> PyStr("Error"), referenced_clauses |-> PyList(<<>>)]

\* views.py:222-227
InvalidOutputDefault(matched) ==
    [decision |-> PyStr("Needs Review"), amount |-> PyNone,
     justification |-> PyStr("Gemini returned invalid output."),
     referenced_clauses |-> PyList(matched)]

\* views.py:231-234 applied to the dict d
InsufficientDefault(d, matched) ==
    DictSet(DictSet(DictSet(DictSet(d,
        "decision", PyStr("Needs Review")),
        "amount", PyNone),
        "justification", PyStr("Insufficient data to decide.")),
        "referenced_clauses", PyList(matched))

\* clause_text__icontains: the substring test without regard to case.
LowerChar(c) ==
    CASE c = "K" -> "k" [] c = "N" -> "n" [] c = "W" -> "w" [] OTHER -> c

Lower(t) == [i \in 1..Len(t) |-> LowerChar(t[i])]

IContains(text, snippet) ==
    \E k \in 0..(Len(text) - Len(snippet)) :
        SubSeq(Lower(text), k + 1, k + Len(snippet)) = Lower(snippet)

None == 0

(***************************************************************************)
(* State.                                                                  *)
(***************************************************************************)
VARIABLES
    \* the store (models.py)
    documents,      \* set of Document rows [id, name]
    clauses,        \* Clause rows [doc, text] in insertion order
    next_doc,       \* the next Document id
    \* the cache (progress entries)
    progress,       \* "progress_<task>" -> value; no key, no entry
    next_task,      \* the next task identifier (uuid4 is fresh each time)
    \* views.py:22-23, the module globals, and the IndexFlatL2 objects
    faiss_index,    \* None, or the identity of an index object
    clause_texts,   \* the list of clause texts
    objs,           \* index object identity -> the vectors added to it
    \* threads: request handlers that take several steps, and upload threads
    procs,          \* sequence of thread records
    \* requests handled and the last response of upload / delete
    n_up, n_del, n_q, n_exp,
    last_resp,
    lim,            \* the requests this run handles: [up, del, q]
    \* the store, continued
    queries,        \* Query rows: id -> [text, parsed]
    decisions,      \* Decision rows, in insertion order
    \* the segmenter run of SpecSeg
    seg_pages,      \* the page texts it is given
    seg_pc,         \* "read", "loop", "done"
    seg_raw,        \* raw_clauses
    seg_i,          \* 0-based position of the for loop in raw_clauses
    seg_st          \* [buffer, clauses]

storevars == <<documents, clauses, next_doc>>
qstorevars == <<queries, decisions>>
countvars == <<n_up, n_del, n_q, n_exp, lim>>
indexvars == <<faiss_index, clause_texts, objs>>
segvars == <<seg_pages, seg_pc, seg_raw, seg_i, seg_st>>

vars == <<documents, clauses, next_doc, progress, next_task, faiss_index,
          clause_texts, objs, procs, n_up, n_del, n_q, n_exp, last_resp, lim,
          queries, decisions, seg_pages, seg_pc, seg_raw, seg_i, seg_st>>

\* A thread record; every kind of thread uses the fields it needs.
NoThread ==
    [kind    |-> "none",   \* "ingest", "delete", "query"
     pc      |-> "none",
     ret     |-> "none",   \* where build_faiss_index returns to
     name    |-> "",       \* ingest: file_obj.name
     pages   |-> <<>>,     \* ingest: the page texts of file_obj
     task    |-> 0,        \* ingest: task_id
     doc     |-> 0,        \* ingest, delete: the Document id
     clauses |-> <<>>,     \* ingest: the local list "clauses"
     i       |-> 0,        \* loop position
     emb     |-> <<>>,     \* build_faiss_index: embeddings
     tmp     |-> <<>>,     \* build_faiss_index: the list read from the store
     query   |-> <<>>,     \* query: query_text
     qid     |-> 0,        \* query: the Query row q
     lazy    |-> FALSE,    \* semantic_search: it found faiss_index None
     indices |-> <<>>,     \* semantic_search: indices[0]
     searched |-> <<>>,    \* semantic_search: the vectors that were searched
     results |-> <<>>,     \* semantic_search: results
     hits    |-> <<>>,     \* semantic_search: the position behind each result
     matched |-> <<>>,     \* query: matched_clauses_texts
     dres    |-> <<>>,     \* query: the decision response received
     ddata   |-> <<>>,     \* query: decision_data
     err     |-> "",       \* the exception that ended the thread, if one did
     alone   |-> FALSE,    \* query: no other thread was running when it began
     resp    |-> <<>>]     \* query: the response, [status, body]

NoResp == [op |-> "none", name |-> "", doc |-> 0, status |-> 0, task |-> 0,
           progress |-> 0]

SegIdle ==
    /\ seg_pages = <<>>
    /\ seg_pc = "idle"
    /\ seg_raw = <<>>
    /\ seg_i = 0
    /\ seg_st = SegStart

\* The state after the module is loaded on an empty store.
Loaded ==
    /\ documents = {}
    /\ clauses = <<>>
    /\ next_doc = 1
    /\ progress = <<>>
    /\ next_task = 1
    /\ faiss_index = None
    /\ clause_texts = <<>>
    /\ objs = <<>>
    /\ procs = <<>>
    /\ n_up = 0
    /\ n_del = 0
    /\ n_q = 0
    /\ n_exp = 0
    /\ last_resp = NoResp
    /\ queries = <<>>
    /\ decisions = <<>>

Init ==
    /\ Loaded
    /\ lim = [up |-> MaxUploads, del |-> MaxDeletes, q |-> 0]
    /\ SegIdle

Pids == DOMAIN procs

\* procs with thread p changed to r
Set(p, r) == [procs EXCEPT ![p] = r]

\* An upload thread that goes on to the rebuild after an exception.
RaiseGoesOn(r, e) ==
    IF r.kind = "query"
    THEN [r EXCEPT !.pc = "done", !.err = e,
                   !.resp = [status |-> 500, body |-> ErrorBody]]
    ELSE [r EXCEPT !.pc = "b_read", !.ret = "done", !.err = e]

\* Where an exception raised in thread r takes it: in process_query (inside
\* its try) to the except clause, views.py:247-253, and its 500 response;
\* an upload thread or the delete handler ends with the exception.
Raise(r, e) ==
    IF r.kind = "query"
    THEN [r EXCEPT !.pc = "done", !.err = e,
                   !.resp = [status |-> 500, body |-> ErrorBody]]
    ELSE [r EXCEPT !.pc = "failed", !.err = e]

(***************************************************************************)
(* upload_document, views.py:71-103.                                       *)
(***************************************************************************)
\* A duplicate check that never finds a duplicate.
DuplicateNameNever(name) == FALSE

\* views.py:77  Document.objects.filter(name=file_obj.name).exists()
DuplicateName(name) == \E d \in documents : d.name = name

\* views.py:73-103.  The handler answers 400 on a duplicate name; otherwise
\* it creates the task, its progress entry and the thread of process_file.
UploadDocument(f) ==
    /\ n_up < lim.up
    /\ n_up' = n_up + 1
    /\ IF DuplicateName(f.name)
       THEN /\ last_resp' = [NoResp EXCEPT !.op = "upload", !.name = f.name,
                                           !.status = 400]
            /\ UNCHANGED <<progress, next_task, procs>>
       ELSE /\ progress' = (next_task :> 0) @@ progress
            /\ next_task' = next_task + 1
            /\ procs' = Append(procs,
                   [NoThread EXCEPT !.kind = "ingest", !.pc = "i_doc",
                                    !.name = f.name, !.pages = f.pages,
                                    !.task = next_task])
            /\ last_resp' = [NoResp EXCEPT !.op = "upload", !.name = f.name,
                                           !.status = 200, !.task = next_task]
    /\ UNCHANGED <<storevars, qstorevars, indexvars, n_del, n_q, n_exp, lim,
                   segvars>>

(***************************************************************************)
(* extract_and_store_clauses, utils.py:3-41, run by process_file.          *)
(***************************************************************************)
\* utils.py:8-32: the Document row is created; then the text is extracted
\* (fitz may raise, after the row is there) and segmented, which touches
\* nothing shared.
IngestDoc(p) ==
    /\ procs[p].pc = "i_doc"
    /\ documents' = documents \cup {[id |-> next_doc, name |-> procs[p].name]}
    /\ next_doc' = next_doc + 1
    /\ \E ok \in BOOLEAN :
          procs' = Set(p,
              IF ok
              THEN LET cs == Segment(procs[p].pages) IN
                   [procs[p] EXCEPT !.doc = next_doc, !.clauses = cs, !.i = 0,
                        !.ret = "done",
                        !.pc = IF cs = <<>> THEN "b_read" ELSE "i_clause"]
              ELSE [procs[p] EXCEPT !.doc = next_doc, !.pc = "failed",
                                    !.err = "extraction"])
    /\ UNCHANGED <<clauses, qstorevars, progress, next_task, indexvars,
                   countvars, last_resp, segvars>>

\* utils.py:35-39: one iteration of the loop that saves the clauses.  The
\* write raises when the store fails or the Document is gone (foreign key).
IngestClause(p) ==
    /\ procs[p].pc = "i_clause"
    /\ LET r == procs[p]
           n == Len(r.clauses)
       IN \E ok \in BOOLEAN :
          IF ok /\ (\E d \in documents : d.id = r.doc)
          THEN /\ clauses' = Append(clauses,
                      [doc |-> r.doc, text |-> r.clauses[r.i + 1]])
               /\ progress' = (r.task :> ProgressAfter(r.i, n)) @@ progress
               /\ procs' = Set(p, [r EXCEPT !.i = r.i + 1,
                      !.pc = IF r.i + 1 = n THEN "b_read" ELSE "i_clause"])
          ELSE /\ procs' = Set(p, Raise(r, "store"))
               /\ UNCHANGED <<clauses, progress>>
    /\ UNCHANGED <<documents, next_doc, qstorevars, next_task, indexvars,
                   countvars, last_resp, segvars>>

(***************************************************************************)
(* build_faiss_index, views.py:26-40, statement by statement.              *)
(***************************************************************************)

\* views.py:29-30, right-hand side: the texts of Clause.objects.all()
StoredTexts == [i \in 1..Len(clauses) |-> clauses[i].text]

BuildRead(p) ==
    /\ procs[p].pc = "b_read"
    /\ procs' = Set(p, [procs[p] EXCEPT !.tmp = StoredTexts, !.pc = "b_store"])
    /\ UNCHANGED <<storevars, qstorevars, progress, next_task, indexvars,
                   countvars, last_resp, segvars>>

\* views.py:30: the assignment to the global clause_texts
BuildStore(p) ==
    /\ procs[p].pc = "b_store"
    /\ clause_texts' = procs[p].tmp
    /\ procs' = Set(p, [procs[p] EXCEPT !.tmp = <<>>, !.pc = "b_check"])
    /\ UNCHANGED <<storevars, qstorevars, progress, next_task, faiss_index,
                   objs, countvars, last_resp, segvars>>

\* views.py:32-34: "if not clause_texts" reads the global
BuildCheck(p) ==
    /\ procs[p].pc = "b_check"
    /\ IF clause_texts = <<>>
       THEN /\ faiss_index' = None
            /\ procs' = Set(p, [procs[p] EXCEPT !.pc = procs[p].ret])
       ELSE /\ procs' = Set(p, [procs[p] EXCEPT !.pc = "b_encode"])
            /\ UNCHANGED faiss_index
    /\ UNCHANGED <<storevars, qstorevars, progress, next_task, clause_texts,
                   objs, countvars, last_resp, segvars>>

\* views.py:36-37: encode reads the global clause_texts; the capability may
\* raise, and embeddings.shape[1] raises for an empty list.
BuildEncode(p) ==
    /\ procs[p].pc = "b_encode"
    /\ \E ok \in BOOLEAN :
          procs' = Set(p,
              IF ok /\ clause_texts # <<>>
              THEN [procs[p] EXCEPT !.emb = Encode(clause_texts), !.pc = "b_new"]
              ELSE Raise(procs[p], IF ok THEN "IndexError" ELSE "embedding"))
    /\ UNCHANGED <<storevars, qstorevars, progress, next_task, indexvars,
                   countvars, last_resp, segvars>>

\* views.py:38: faiss_index = faiss.IndexFlatL2(dim), a new empty object
BuildNew(p) ==
    /\ procs[p].pc = "b_new"
    /\ objs' = Append(objs, <<>>)
    /\ faiss_index' = Len(objs) + 1
    /\ procs' = Set(p, [procs[p] EXCEPT !.pc = "b_add"])
    /\ UNCHANGED <<storevars, qstorevars, progress, next_task, clause_texts,
                   countvars, last_resp, segvars>>

\* views.py:39-40: faiss_index.add(embeddings) on whatever object the global
\* names now; on None it raises.
BuildAdd(p) ==
    /\ procs[p].pc = "b_add"
    /\ IF faiss_index = None
       THEN /\ procs' = Set(p, Raise(procs[p], "AttributeError"))
            /\ UNCHANGED objs
       ELSE /\ objs' = [objs EXCEPT ![faiss_index] = @ \o procs[p].emb]
            /\ procs' = Set(p, [procs[p] EXCEPT !.emb = <<>>,
                                                !.pc = procs[p].ret])
    /\ UNCHANGED <<storevars, qstorevars, progress, next_task, faiss_index,
                   clause_texts, countvars, last_resp, segvars>>

(***************************************************************************)
(* delete_document, views.py:115-131.                                      *)
(***************************************************************************)
RECURSIVE WithoutDoc(_, _)
WithoutDoc(cs, d) ==
    IF cs = <<>> THEN <<>>
    ELSE IF Head(cs).doc = d THEN WithoutDoc(Tail(cs), d)
    ELSE <<Head(cs)>> \o WithoutDoc(Tail(cs), d)

\* views.py:117-118: 404 for an unknown id; otherwise the Document goes, its
\* clauses with it (on_delete=CASCADE), and the handler goes on to rebuild.
DeleteDocument(d) ==
    /\ n_del < lim.del
    /\ n_del' = n_del + 1
    /\ IF \E x \in documents : x.id = d
       THEN /\ documents' = {x \in documents : x.id # d}
            /\ clauses' = WithoutDoc(clauses, d)
            /\ procs' = Append(procs,
                   [NoThread EXCEPT !.kind = "delete", !.pc = "b_read",
                                    !.ret = "done", !.doc = d])
            /\ UNCHANGED last_resp
       ELSE /\ last_resp' = [NoResp EXCEPT !.op = "delete", !.doc = d,
                                           !.status = 404]
            /\ UNCHANGED <<documents, clauses, procs>>
    /\ UNCHANGED <<next_doc, qstorevars, progress, next_task, indexvars,
                   n_up, n_q, n_exp, lim, segvars>>


(***************************************************************************)
(* process_query, views.py:150-255.                                        *)
(***************************************************************************)
onlyprocs == <<storevars, qstorevars, progress, next_task, indexvars,
               countvars, last_resp, segvars>>

\* views.py:153-161.  Query.objects.create and the set-up of the client run
\* before the try: a failure of either leaves the view as an exception.
ProcessQuery(qt) ==
    /\ n_q < lim.q
    /\ n_q' = n_q + 1
    /\ \E outcome \in {"ok", "create_fails", "setup_fails"} :
          LET r == [NoThread EXCEPT !.kind = "query", !.query = qt,
                       !.alone = \A o \in Pids :
                                    procs[o].pc \in {"done", "failed", "crashed"}]
          IN
          /\ queries' = IF outcome = "create_fails" THEN queries
                        ELSE Append(queries, [text |-> qt, parsed |-> PyNone])
          /\ procs' = Append(procs,
                 IF outcome = "ok"
                 THEN [r EXCEPT !.qid = Len(queries) + 1, !.pc = "q_parse"]
                 ELSE [r EXCEPT !.pc = "crashed", !.err = outcome,
                          !.qid = IF outcome = "create_fails" THEN 0
                                  ELSE Len(queries) + 1,
                          !.resp = [status |-> 500,
                                    body |-> [traceback |-> PyStr(outcome)]]])
    /\ UNCHANGED <<storevars, decisions, progress, next_task, indexvars, n_up,
                   n_del, n_exp, lim, last_resp, segvars>>

\* A parse step that never assigns q.parsed_data.
ParsedDataUnsaved(r) == PyNone

\* views.py:171-178: the fences are removed; json.loads, and {} when it
\* raises JSONDecodeError.
ParsedData(r) ==
    LET text == Unfence(r) IN
    IF JsonOk(text) THEN text[1].val ELSE EmptyDict

\* views.py:170-180: the attribute call (it may raise), the fences, the
\* soft-failing json.loads, q.save().
QueryParse(p) ==
    /\ procs[p].pc = "q_parse"
    /\ \E ok \in BOOLEAN, r \in ParseResponses :
          IF ok
          THEN LET parsed_data == ParsedData(r)
               IN /\ queries' = [queries EXCEPT ![procs[p].qid].parsed = parsed_data]
                  /\ procs' = Set(p, [procs[p] EXCEPT !.pc = "s_lazy"])
          ELSE /\ procs' = Set(p, Raise(procs[p], "transport"))
               /\ UNCHANGED queries
    /\ UNCHANGED <<storevars, decisions, progress, next_task, indexvars,
                   countvars, last_resp, segvars>>

(***************************************************************************)
(* semantic_search, views.py:43-59, as called by process_query.            *)
(***************************************************************************)
\* views.py:46-47: a missing index is built first
SearchLazy(p) ==
    /\ procs[p].pc = "s_lazy"
    /\ procs' = Set(p,
           IF faiss_index = None
           THEN [procs[p] EXCEPT !.lazy = TRUE, !.pc = "b_read", !.ret = "s_check"]
           ELSE [procs[p] EXCEPT !.pc = "s_check"])
    /\ UNCHANGED onlyprocs

\* A search without the check for an empty index.
ReturnsEmptyNever(idx, texts) == FALSE

\* views.py:49  faiss_index is None or len(clause_texts) == 0
ReturnsEmpty(idx, texts) == idx = None \/ Len(texts) = 0

\* views.py:49-50
SearchCheck(p) ==
    /\ procs[p].pc = "s_check"
    /\ procs' = Set(p,
           IF ReturnsEmpty(faiss_index, clause_texts)
           THEN [procs[p] EXCEPT !.results = <<>>, !.pc = "q_resolve", !.i = 0]
           ELSE [procs[p] EXCEPT !.pc = "s_search"])
    /\ UNCHANGED onlyprocs

\* views.py:52-53: the query is embedded (the capability may raise) and the
\* object the global names now is searched; on None that raises.
SearchIndex(p) ==
    /\ procs[p].pc = "s_search"
    /\ \E ok \in BOOLEAN :
          procs' = Set(p,
              IF ok /\ faiss_index # None
              THEN [procs[p] EXCEPT
                       !.searched = objs[faiss_index],
                       !.indices = FaissSearch(objs[faiss_index],
                                               Embed(procs[p].query), TopK),
                       !.i = 0, !.pc = "s_collect"]
              ELSE Raise(procs[p], IF ok THEN "AttributeError" ELSE "embedding"))
    /\ UNCHANGED onlyprocs

\* views.py:56-58: one iteration of "for idx in indices[0]"; both reads of
\* the global clause_texts are taken together.
SearchCollect(p) ==
    /\ procs[p].pc = "s_collect"
    /\ LET r == procs[p]
           idx == r.indices[r.i + 1]
           last == r.i + 1 = Len(r.indices)
           after == IF last THEN [r EXCEPT !.i = 0, !.pc = "q_resolve"]
                    ELSE [r EXCEPT !.i = r.i + 1]
       IN procs' = Set(p,
              IF idx < Len(clause_texts)
              THEN IF PyIndexable(clause_texts, idx)
                   THEN [after EXCEPT
                            !.results = Append(r.results, PyIndex(clause_texts, idx)),
                            !.hits = Append(r.hits, idx)]
                   ELSE Raise(r, "IndexError")
              ELSE after)
    /\ UNCHANGED onlyprocs

(***************************************************************************)
(* process_query, continued.                                               *)
(***************************************************************************)
\* views.py:187  Clause.objects.filter(clause_text__icontains=snippet).first()
FirstContaining(snippet) ==
    LET S == {k \in 1..Len(clauses) : IContains(clauses[k].text, snippet)} IN
    IF S = {} THEN <<>>
    ELSE <<clauses[CHOOSE k \in S : \A j \in S : k <= j].text>>

\* views.py:186-192: one iteration of the loop over the snippets, and after
\* the last one the fallback to the snippets themselves.
QueryResolve(p) ==
    /\ procs[p].pc = "q_resolve"
    /\ LET r == procs[p]
           m == IF r.i < Len(r.results)
                THEN r.matched \o FirstContaining(r.results[r.i + 1])
                ELSE r.matched
       IN procs' = Set(p,
              IF r.i + 1 < Len(r.results)
              THEN [r EXCEPT !.matched = m, !.i = r.i + 1]
              ELSE [r EXCEPT !.matched = IF m = <<>> THEN r.results ELSE m,
                             !.i = 0, !.pc = "q_decide"])
    /\ UNCHANGED onlyprocs

\* views.py:216-234: decision_data from the response text r.  For a JSON
\* value that is no object, the test or the item assignment of
\* views.py:230-231 raises TypeError: the result is then no dict.
DecisionData(r, matched) ==
    LET text == Unfence(r)
        loaded == IF JsonOk(text) THEN text[1].val
                  ELSE PyDict(InvalidOutputDefault(matched))
    IN IF loaded.ty # "dict" THEN loaded
       ELSE IF "decision" \notin DOMAIN loaded.d
       THEN PyDict(InsufficientDefault(loaded.d, matched))
       ELSE loaded

\* views.py:215-234: the decision call (it may raise) and its parsing
QueryDecide(p) ==
    /\ procs[p].pc = "q_decide"
    /\ \E ok \in BOOLEAN, r \in DecisionResponses :
          LET data == DecisionData(r, procs[p].matched) IN
          procs' = Set(p,
              IF ok /\ data.ty = "dict"
              THEN [procs[p] EXCEPT !.dres = r, !.ddata = data.d,
                                    !.pc = "q_persist"]
              ELSE IF ok THEN Raise([procs[p] EXCEPT !.dres = r], "TypeError")
              ELSE Raise(procs[p], "transport"))
    /\ UNCHANGED onlyprocs

\* A last step that writes the Decision row and raises afterwards.
QueryPersistThenFail(p) ==
    /\ procs[p].pc = "q_persist"
    /\ LET r == procs[p] IN
       /\ decisions' = Append(decisions,
              [query |-> r.qid,
               decision_status |-> r.ddata["decision"],
               amount |-> DictGet(r.ddata, "amount", PyNone),
               justification |-> DictGet(r.ddata, "justification", PyNone),
               referenced_clauses |->
                   DictGet(r.ddata, "referenced_clauses", PyList(r.matched))])
       /\ procs' = Set(p, Raise(r, "response"))
    /\ UNCHANGED <<storevars, queries, progress, next_task, indexvars,
                   countvars, last_resp, segvars>>

\* views.py:237-245: decision_data["justification"] raises KeyError when
\* the key is missing; the write may fail.
QueryPersist(p) ==
    /\ procs[p].pc = "q_persist"
    /\ LET r == procs[p] IN
       \E ok \in BOOLEAN :
          IF ok /\ "justification" \in DOMAIN r.ddata
          THEN /\ decisions' = Append(decisions,
                      [query |-> r.qid,
                       decision_status |-> r.ddata["decision"],
                       amount |-> DictGet(r.ddata, "amount", PyNone),
                       justification |-> r.ddata["justification"],
                       referenced_clauses |->
                           DictGet(r.ddata, "referenced_clauses",
                                   PyList(r.matched))])
               /\ procs' = Set(p, [r EXCEPT !.pc = "done",
                      !.resp = [status |-> 200, body |-> r.ddata]])
          ELSE /\ procs' = Set(p, Raise(r, IF ok THEN "KeyError" ELSE "store"))
               /\ UNCHANGED decisions
    /\ UNCHANGED <<storevars, queries, progress, next_task, indexvars,
                   countvars, last_resp, segvars>>

(***************************************************************************)
(* The cache: an entry is dropped when its timeout (600 s) has passed.     *)
(***************************************************************************)
CacheExpire(t) ==
    /\ n_exp < MaxExpiries
    /\ t \in DOMAIN progress
    /\ n_exp' = n_exp + 1
    /\ progress' = [k \in DOMAIN progress \ {t} |-> progress[k]]
    /\ UNCHANGED <<storevars, qstorevars, next_task, indexvars, procs, n_up,
                   n_del, n_q, lim, last_resp, segvars>>

\* A cache read that answers with the newest entry, whatever the key.
CacheGetAnyKey(c, key, default) ==
    IF DOMAIN c = {} THEN default
    ELSE c[CHOOSE k \in DOMAIN c : \A j \in DOMAIN c : j <= k]

\* cache.get(key, default): the entry of the key, or the default
CacheGet(c, key, default) ==
    IF key \in DOMAIN c THEN c[key] ELSE default

\* views.py:108-111  get_progress(request, task_id), for any identifier
GetProgress(t) ==
    /\ last_resp' = [NoResp EXCEPT !.op = "progress", !.task = t,
                                   !.status = 200,
                                   !.progress = CacheGet(progress, t, 0)]
    /\ UNCHANGED <<storevars, qstorevars, progress, next_task, indexvars,
                   procs, countvars, segvars>>

(***************************************************************************)
(* The segmenter, line by line.                                            *)
(***************************************************************************)
InitSeg ==
    /\ Loaded
    /\ lim = [up |-> 0, del |-> 0, q |-> 0]
    /\ seg_pages \in SegInputs
    /\ seg_pc = "read"
    /\ seg_raw = <<>>
    /\ seg_i = 0
    /\ seg_st = SegStart

\* utils.py:11-20
SegRead ==
    /\ seg_pc = "read"
    /\ seg_raw' = RawClauses(seg_pages)
    /\ seg_pc' = "loop"
    /\ UNCHANGED <<seg_pages, seg_i, seg_st>>
    /\ UNCHANGED <<storevars, qstorevars, progress, next_task, indexvars,
                   procs, countvars, last_resp>>

\* utils.py:22-29
SegLine ==
    /\ seg_pc = "loop"
    /\ seg_i < Len(seg_raw)
    /\ seg_st' = SegStep(seg_st, seg_raw[seg_i + 1])
    /\ seg_i' = seg_i + 1
    /\ UNCHANGED <<seg_pages, seg_pc, seg_raw>>
    /\ UNCHANGED <<storevars, qstorevars, progress, next_task, indexvars,
                   procs, countvars, last_resp>>

\* utils.py:31-32
SegFlush ==
    /\ seg_pc = "loop"
    /\ seg_i = Len(seg_raw)
    /\ seg_st' = [buffer |-> <<>>, clauses |-> SegFinish(seg_st)]
    /\ seg_pc' = "done"
    /\ UNCHANGED <<seg_pages, seg_raw, seg_i>>
    /\ UNCHANGED <<storevars, qstorevars, progress, next_task, indexvars,
                   procs, countvars, last_resp>>

NextSeg ==
    \/ SegRead
    \/ SegLine
    \/ SegFlush

SpecSeg == InitSeg /\ [][NextSeg]_vars

(***************************************************************************)
(* The application.                                                        *)
(***************************************************************************)
Next ==
    \/ \E f \in FileSet : UploadDocument(f)
    \/ \E p \in Pids : IngestDoc(p)
    \/ \E p \in Pids : IngestClause(p)
    \/ \E p \in Pids : BuildRead(p)
    \/ \E p \in Pids : BuildStore(p)
    \/ \E p \in Pids : BuildCheck(p)
    \/ \E p \in Pids : BuildEncode(p)
    \/ \E p \in Pids : BuildNew(p)
    \/ \E p \in Pids : BuildAdd(p)
    \/ \E d \in 1..MaxUploads : DeleteDocument(d)

Spec == Init /\ [][Next]_vars

\* The whole application, with process_query.
InitQuery ==
    /\ Loaded
    /\ lim = [up |-> QueryUploads, del |-> QueryDeletes, q |-> MaxQueries]
    /\ SegIdle

NextQuery ==
    \/ \E f \in FileSet : UploadDocument(f)
    \/ \E p \in Pids : IngestDoc(p)
    \/ \E p \in Pids : IngestClause(p)
    \/ \E p \in Pids : BuildRead(p)
    \/ \E p \in Pids : BuildStore(p)
    \/ \E p \in Pids : BuildCheck(p)
    \/ \E p \in Pids : BuildEncode(p)
    \/ \E p \in Pids : BuildNew(p)
    \/ \E p \in Pids : BuildAdd(p)
    \/ \E d \in 1..MaxUploads : DeleteDocument(d)
    \/ \E qt \in QueryTexts : ProcessQuery(qt)
    \/ \E p \in Pids : QueryParse(p)
    \/ \E p \in Pids : SearchLazy(p)
    \/ \E p \in Pids : SearchCheck(p)
    \/ \E p \in Pids : SearchIndex(p)
    \/ \E p \in Pids : SearchCollect(p)
    \/ \E p \in Pids : QueryResolve(p)
    \/ \E p \in Pids : QueryDecide(p)
    \/ \E p \in Pids : QueryPersist(p)

SpecQuery == InitQuery /\ [][NextQuery]_vars

\* The same with cache entries expiring.
InitCache ==
    /\ Loaded
    /\ lim = [up |-> MaxUploads, del |-> 0, q |-> 0]
    /\ SegIdle

NextCache ==
    \/ \E f \in FileSet : UploadDocument(f)
    \/ \E p \in Pids : IngestDoc(p)
    \/ \E p \in Pids : IngestClause(p)
    \/ \E p \in Pids : BuildRead(p)
    \/ \E p \in Pids : BuildStore(p)
    \/ \E p \in Pids : BuildCheck(p)
    \/ \E p \in Pids : BuildEncode(p)
    \/ \E p \in Pids : BuildNew(p)
    \/ \E p \in Pids : BuildAdd(p)
    \/ \E t \in 1..MaxUploads : CacheExpire(t)
    \/ \E t \in 1..(MaxUploads + 1) : GetProgress(t)

SpecCache == InitCache /\ [][NextCache]_vars

(***************************************************************************)
(* Queries and deletions over an ingested corpus: the state after b.pdf    *)
(* and then a.pdf have been uploaded and ingested, one after the other,    *)
(* each with its rebuild.                                                  *)
(***************************************************************************)
File_a == [name |-> "a.pdf", pages |-> PagesOneClause]
File_b == [name |-> "b.pdf", pages |-> PagesTwoClauses]

\* The thread of process_file after it has returned.
IngestedThread(f, task, doc) ==
    [NoThread EXCEPT !.kind = "ingest", !.pc = "done", !.ret = "done",
                     !.name = f.name, !.pages = f.pages, !.task = task,
                     !.doc = doc, !.clauses = Segment(f.pages),
                     !.i = Len(Segment(f.pages))]

RowsOf(f, doc) ==
    [k \in 1..Len(Segment(f.pages)) |-> [doc |-> doc, text |-> Segment(f.pages)[k]]]

Ingested ==
    /\ documents = {[id |-> 1, name |-> File_b.name], [id |-> 2, name |-> File_a.name]}
    /\ clauses = RowsOf(File_b, 1) \o RowsOf(File_a, 2)
    /\ next_doc = 3
    /\ progress = (1 :> 100) @@ (2 :> 100)
    /\ next_task = 3
    /\ clause_texts = Segment(File_b.pages) \o Segment(File_a.pages)
    /\ objs = <<Encode(Segment(File_b.pages)),
                Encode(Segment(File_b.pages) \o Segment(File_a.pages))>>
    /\ faiss_index = 2
    /\ procs = <<IngestedThread(File_b, 1, 1), IngestedThread(File_a, 2, 2)>>
    /\ n_up = 2
    /\ n_del = 0
    /\ n_q = 0
    /\ n_exp = 0
    /\ last_resp = [NoResp EXCEPT !.op = "upload", !.name = File_a.name,
                                  !.status = 200, !.task = 2]
    /\ queries = <<>>
    /\ decisions = <<>>

InitStale ==
    /\ Ingested
    /\ lim = [up |-> n_up, del |-> QueryDeletes, q |-> MaxQueries]
    /\ SegIdle

NextStale ==
    \/ \E d \in 1..2 : DeleteDocument(d)
    \/ \E p \in Pids : BuildRead(p)
    \/ \E p \in Pids : BuildStore(p)
    \/ \E p \in Pids : BuildCheck(p)
    \/ \E p \in Pids : BuildEncode(p)
    \/ \E p \in Pids : BuildNew(p)
    \/ \E p \in Pids : BuildAdd(p)
    \/ \E qt \in QueryTexts : ProcessQuery(qt)
    \/ \E p \in Pids : QueryParse(p)
    \/ \E p \in Pids : SearchLazy(p)
    \/ \E p \in Pids : SearchCheck(p)
    \/ \E p \in Pids : SearchIndex(p)
    \/ \E p \in Pids : SearchCollect(p)
    \/ \E p \in Pids : QueryResolve(p)
    \/ \E p \in Pids : QueryDecide(p)
    \/ \E p \in Pids : QueryPersist(p)

SpecStale == InitStale /\ [][NextStale]_vars

\* Queries side by side over the ingested corpus, nothing else running.
InitPair ==
    /\ Ingested
    /\ lim = [up |-> n_up, del |-> 0, q |-> PairQueries]
    /\ SegIdle

NextPair ==
    \/ \E qt \in QueryTexts : ProcessQuery(qt)
    \/ \E p \in Pids : QueryParse(p)
    \/ \E p \in Pids : SearchLazy(p)
    \/ \E p \in Pids : SearchCheck(p)
    \/ \E p \in Pids : SearchIndex(p)
    \/ \E p \in Pids : SearchCollect(p)
    \/ \E p \in Pids : QueryResolve(p)
    \/ \E p \in Pids : QueryDecide(p)
    \/ \E p \in Pids : QueryPersist(p)

SpecPair == InitPair /\ [][NextPair]_vars

(***************************************************************************)
(* Properties.                                                             *)
(***************************************************************************)
Ended(r) == r.pc \in {"done", "failed", "crashed"}
InBuild(r) == r.pc \in {"b_read", "b_store", "b_check", "b_encode", "b_new", "b_add"}

\* The query thread p ran with nothing beside it: every other thread had
\* ended when it began, and none has begun since.
Undisturbed(p) ==
    /\ procs[p].kind = "query"
    /\ procs[p].alone
    /\ p = Len(procs)

\* semantic_search of thread p has returned its results.
SearchReturned(p) ==
    /\ procs[p].kind = "query"
    /\ \/ procs[p].pc \in {"q_resolve", "q_decide", "q_persist"}
       \/ procs[p].pc = "done" /\ procs[p].dres # <<>>

\* C1: a search that runs beside a rebuild sees one consistent snapshot:
\* every text it returns for a position the index reported is the text
\* whose embedding sat at that position of the vectors it searched.
C1_ConsistentSnapshot ==
    \A p \in Pids :
        procs[p].kind = "query" =>
            \A j \in 1..Len(procs[p].results) :
                LET idx == procs[p].hits[j] IN
                idx >= 0 =>
                    /\ idx < Len(procs[p].searched)
                    /\ procs[p].searched[idx + 1] = Embed(procs[p].results[j])

\* C2: whenever no rebuild is executing (and no thread has ended with an
\* exception), the index is empty or holds, position by position, the
\* embeddings of clause_texts.
C2_AlignedWhenIdle ==
    (\A p \in Pids : ~InBuild(procs[p]) /\ procs[p].err = "") =>
        \/ faiss_index = None
        \/ objs[faiss_index] = Encode(clause_texts)

\* C3: an upload request whose file name is the name of a stored Document
\* is answered 400 and changes nothing: no Document, no task identifier, no
\* progress entry, no thread, no change of the index.
C3_DuplicateRejected ==
    [][ (n_up' = n_up + 1 /\ \E d \in documents : d.name = last_resp'.name)
        => /\ last_resp'.status = 400
           /\ last_resp'.task = 0
           /\ UNCHANGED <<documents, clauses, next_doc, progress, next_task,
                          procs, faiss_index, clause_texts, objs>> ]_vars

C3_Witness ==
    /\ last_resp.op = "upload"
    /\ last_resp.status = 400
    /\ \E d \in documents : d.name = last_resp.name

\* C4: the progress entry of an ingestion task that has completed (no cache
\* entry expires in this specification) holds exactly 100, whatever the
\* number of clauses the segmenter produced.
C4_CompletedReaches100 ==
    \A p \in Pids :
        (procs[p].kind = "ingest" /\ procs[p].pc = "done") =>
            /\ procs[p].task \in DOMAIN progress
            /\ progress[procs[p].task] = 100

\* The decision response r, its fences removed, is no JSON or a JSON value
\* without the key decision.
LacksDecision(r) ==
    LET text == Unfence(r) IN
    \/ ~JsonOk(text)
    \/ text[1].val.ty # "dict"
    \/ "decision" \notin DOMAIN text[1].val.d

NeedsReviewRow(row, matched) ==
    /\ row.decision_status.ty = "str"
    /\ row.decision_status.s = "Needs Review"
    /\ row.amount.ty = "none"
    /\ row.referenced_clauses.ty = "list"
    /\ row.referenced_clauses.l = matched

\* C5: when the decision response fails to parse or has no decision key,
\* the request ends (the store not failing) with a Decision row of the
\* Query: Needs Review, no amount, the resolved clauses as references.
C5_MissingDecisionDefaults ==
    \A p \in Pids :
        LET r == procs[p] IN
        (r.kind = "query" /\ r.pc = "done" /\ r.dres # <<>>
            /\ LacksDecision(r.dres) /\ r.err # "store") =>
            \E k \in DOMAIN decisions :
                /\ decisions[k].query = r.qid
                /\ NeedsReviewRow(decisions[k], r.matched)

DecisionShaped(body) ==
    {"decision", "amount", "justification", "referenced_clauses"} \subseteq DOMAIN body

\* C6: a failure at any step of an accepted request (here: any step after
\* the Query row is there) never leaves the view as an exception: the
\* caller gets status 500 with a Decision-shaped body (Needs Review, no
\* amount, no referenced clauses).
C6_AlwaysDecisionShaped ==
    \A p \in Pids :
        LET r == procs[p] IN
        (r.kind = "query" /\ Ended(r) /\ r.err # "" /\ r.qid # 0) =>
            /\ r.pc = "done"
            /\ r.resp.status = 500
            /\ DecisionShaped(r.resp.body)
            /\ r.resp.body = ErrorBody

\* C7: a search with nothing running beside it, over an index of N >= 1
\* vectors, returns at most k texts, each of the snapshot, in non-decreasing
\* distance from the query.
C7_SearchSorted ==
    \A p \in Pids :
        (Undisturbed(p) /\ SearchReturned(p) /\ procs[p].searched # <<>>) =>
            LET res == procs[p].results
                q == Embed(procs[p].query)
            IN /\ Len(res) <= TopK
               /\ \A j \in 1..Len(res) :
                      \E i \in 1..Len(clause_texts) : clause_texts[i] = res[j]
               /\ \A j \in 1..Len(res) : \A k \in j..Len(res) :
                      L2(Embed(res[j]), q) <= L2(Embed(res[k]), q)

\* C8 as stated: a search called while the index is not initialised
\* returns the empty list.
C8_EmptyWhenUninitialised ==
    \A p \in Pids :
        (SearchReturned(p) /\ procs[p].lazy) => procs[p].results = <<>>

\* C8, amended: a rebuild that finds the captured clause list empty sets
\* the index to None and returns normally; a search that finds the index
\* None rebuilds it first, and returns [] exactly when the index is still
\* None or clause_texts is empty after that: with nothing beside it, [] for
\* a store without clauses and clause texts for a store with clauses.
C8_LazyRebuildThenEmpty ==
    /\ [][ \A p \in Pids :
             /\ (procs[p].pc = "b_check" /\ procs'[p].pc # "b_check"
                     /\ clause_texts = <<>>)
                => (faiss_index' = None /\ procs'[p].pc = procs[p].ret
                        /\ procs'[p].err = "")
             /\ (procs[p].pc = "s_lazy" /\ procs'[p].pc # "s_lazy")
                => procs'[p].pc = IF faiss_index = None THEN "b_read" ELSE "s_check"
             /\ (procs[p].pc = "s_check" /\ procs'[p].pc # "s_check")
                => IF faiss_index = None \/ clause_texts = <<>>
                   THEN procs'[p].pc = "q_resolve" /\ procs'[p].results = <<>>
                   ELSE procs'[p].pc = "s_search" ]_vars
    /\ [](\A p \in Pids :
             (Undisturbed(p) /\ procs[p].lazy /\ procs[p].pc \notin {"b_read",
                  "b_store", "b_check", "b_encode", "b_new", "b_add", "s_check",
                  "s_search", "s_collect"}
                /\ procs[p].err \notin {"embedding", "IndexError", "AttributeError"})
             => (procs[p].results = <<>> <=> clauses = <<>>))

C8_Witness ==
    \E p \in Pids :
        /\ Undisturbed(p) /\ procs[p].lazy /\ SearchReturned(p)
        /\ procs[p].results = <<>>
        /\ faiss_index = None

Txt_Section1ab == <<"S","e","c","t","i","o","n"," ","1"," ","a"," ","b">>

\* C9 as stated: the worked example yields two clauses.
C9_ExampleTwoClauses ==
    (seg_pages = ExampleLines /\ seg_pc = "done")
        => seg_st.clauses = <<Txt_Section1ab, Txt_Section2>>

\* C9, amended: every line of the worked example is shorter than 40
\* characters (the last has 34), so it yields the one clause
\* "Section 1 a b Section 2 full clause text here ok".
C9_ExampleOneClause ==
    (seg_pages = ExampleLines /\ seg_pc = "done")
        => seg_st.clauses = <<Txt_Section1ab \o <<" ">> \o Txt_Section2>>

C9_Witness == seg_pages = ExampleLines /\ seg_pc = "done"

\* C10: the segmenter loses, duplicates and reorders nothing: the clauses
\* joined by blanks are the trimmed non-empty lines joined by blanks, no
\* clause is empty, no line gives no clause, only short lines give one.
C10_SegmenterLossless ==
    seg_pc = "done" =>
        LET cs == seg_st.clauses IN
        /\ Join(<<" ">>, cs) = Join(<<" ">>, seg_raw)
        /\ \A k \in 1..Len(cs) : cs[k] # <<>>
        /\ (seg_pages = <<>> => cs = <<>>)
        /\ (seg_raw = <<>> => cs = <<>>)
        /\ (seg_raw # <<>> /\ \A k \in 1..Len(seg_raw) : Len(seg_raw[k]) < Threshold)
               => Len(cs) = 1

C10_Witness ==
    /\ seg_pc = "done"
    /\ Len(seg_st.clauses) = 3
    /\ Len(seg_raw) = 4

\* The value the task of identifier t has set last: 0 at its start
\* (views.py:83), then the percentage after each clause (utils.py:38-39).
LastSet(t) ==
    LET p == CHOOSE q \in Pids : procs[q].kind = "ingest" /\ procs[q].task = t
        r == procs[p]
    IN IF r.i = 0 THEN 0 ELSE ProgressAfter(r.i - 1, Len(r.clauses))

\* C11: get_progress answers 0 for an identifier that was never set or
\* whose entry has expired, and otherwise the value set last for that
\* identifier, whatever has been set for other identifiers.
C11_ProgressReadContract ==
    [][ (last_resp' # last_resp /\ last_resp'.op = "progress") =>
            LET t == last_resp'.task IN
            /\ last_resp'.status = 200
            /\ last_resp'.progress =
                   IF t >= next_task \/ t \notin DOMAIN progress THEN 0
                   ELSE LastSet(t)
            /\ UNCHANGED <<progress, procs, storevars, indexvars>> ]_vars

\* A read of one identifier returns its 50 while the entry of the other
\* identifier holds another value.
C11_Witness ==
    /\ last_resp.op = "progress"
    /\ last_resp.progress = 50
    /\ last_resp.task \in DOMAIN progress
    /\ \E o \in DOMAIN progress :
           o # last_resp.task /\ progress[o] # 50 /\ o > last_resp.task

\* The ingestion thread r has ended by a failed extraction or clause write.
IngestFailed(r) ==
    r.kind = "ingest" /\ r.err \in {"extraction", "store"}

\* The Clause rows of Document d
ClausesOf(d) == SelectSeq(clauses, LAMBDA c : c.doc = d)

\* C12: when the extraction or a clause write of an ingestion task fails,
\* the task halts before any rebuild: the failing step removes no row and
\* touches neither the index nor the progress entry, the thread takes no
\* step afterwards (so none of build_faiss_index), its progress entry keeps
\* its value, and unless delete_document removed the Document, the Document
\* and the clauses written before the failure are in the store.
C12_FailureHaltsTask ==
    /\ [][ \A p \in Pids :
              /\ (IngestFailed(procs'[p]) /\ ~IngestFailed(procs[p])) =>
                     /\ procs[p].pc \in {"i_doc", "i_clause"}
                     /\ procs'[p].pc = "failed"
                     /\ clauses' = clauses
                     /\ documents \subseteq documents'
                     /\ UNCHANGED <<progress, indexvars>>
              /\ IngestFailed(procs[p]) =>
                     /\ procs'[p] = procs[p]
                     /\ procs[p].task \in DOMAIN progress'
                     /\ progress'[procs[p].task] = progress[procs[p].task] ]_vars
    /\ [](\A p \in Pids :
             (IngestFailed(procs[p])
                 /\ ~\E o \in Pids : procs[o].kind = "delete"
                                         /\ procs[o].doc = procs[p].doc) =>
                 /\ \E d \in documents : d.id = procs[p].doc
                                           /\ d.name = procs[p].name
                 /\ ClausesOf(procs[p].doc) =
                        [k \in 1..procs[p].i |->
                            [doc |-> procs[p].doc, text |-> procs[p].clauses[k]]]
                 /\ progress[procs[p].task] = LastSet(procs[p].task))

\* The second clause write of a task failed: its first clause is stored,
\* its entry stays at 50, and another thread has rebuilt the index since.
C12_Witness ==
    \E p \in Pids :
        /\ IngestFailed(procs[p])
        /\ procs[p].err = "store"
        /\ procs[p].i = 1
        /\ Len(ClausesOf(procs[p].doc)) = 1
        /\ progress[procs[p].task] = 50
        /\ faiss_index # None
        /\ \A o \in Pids : Ended(procs[o])

\* C13: once every ingestion task and every deletion has completed, its
\* rebuild included, the snapshot clause_texts is the clause corpus of the
\* store, and the index holds the embeddings of exactly those texts.
C13_FreshWhenAllCompleted ==
    (procs # <<>> /\ \A p \in Pids : procs[p].pc = "done") =>
        /\ clause_texts = StoredTexts
        /\ IF clauses = <<>> THEN faiss_index = None
           ELSE faiss_index # None /\ objs[faiss_index] = Encode(StoredTexts)

\* The last position of the run of short lines that follows position j
RECURSIVE ShortRunEnd(_, _)
ShortRunEnd(lines, j) ==
    IF j < Len(lines) /\ Len(lines[j + 1]) < Threshold
    THEN ShortRunEnd(lines, j + 1)
    ELSE j

\* C14: a long line starts a clause and is its buffer: the short lines
\* that follow it, up to the next long line, are joined to it by blanks
\* in one clause, and none of them is emitted apart from it.
C14_LongLineIsBuffer ==
    seg_pc = "done" =>
        \A j \in 1..Len(seg_raw) :
            Len(seg_raw[j]) >= Threshold =>
                \E k \in 1..Len(seg_st.clauses) :
                    seg_st.clauses[k] =
                        Join(<<" ">>, SubSeq(seg_raw, j, ShortRunEnd(seg_raw, j)))

\* The loop that resolves the snippets of thread r has ended.
Resolved(r) ==
    /\ r.kind = "query"
    /\ \/ r.pc \in {"q_decide", "q_persist"}
       \/ r.pc = "done" /\ r.dres # <<>>

\* C15: the resolved clause list has one entry per snippet of the search,
\* in the order of the snippets: a stored text that contains the snippet
\* (whatever the case of the letters), or the snippet itself; no snippet
\* is dropped.
C15_OneEntryPerSnippet ==
    \A p \in Pids :
        Resolved(procs[p]) =>
            /\ Len(procs[p].matched) = Len(procs[p].results)
            /\ \A j \in 1..Len(procs[p].results) :
                   IContains(procs[p].matched[j], procs[p].results[j])

\* The state of the pipeline the query thread r is in.
Stage(r) ==
    IF r.pc = "crashed" \/ (r.pc = "done" /\ r.err # "") THEN "Error"
    ELSE IF r.pc = "q_parse" THEN "Created"
    ELSE IF r.pc = "q_decide" THEN "Retrieved"
    ELSE IF r.pc = "q_persist" THEN "Decided"
    ELSE IF r.pc = "done" THEN "Persisted"
    ELSE "Parsed"

StageNo(st) ==
    CASE st = "Created" -> 1 [] st = "Parsed" -> 2 [] st = "Retrieved" -> 3
      [] st = "Decided" -> 4 [] st = "Persisted" -> 5 [] st = "Error" -> 6

DecisionsOf(q) == SelectSeq(decisions, LAMBDA d : d.query = q)

\* C16: a query attempt goes through Created, Parsed, Retrieved, Decided,
\* Persisted in this order, one state at a time and never back, or from
\* any of them to Error, and stays in Persisted or Error.  The parse step
\* fails only when the call itself raises; a response that is no JSON
\* leaves the empty mapping; the mapping is on the Query row from Parsed
\* on, so before the search; the Decision row is written by the step from
\* Decided to Persisted alone, from the data of the decision step.
C16_PipelineOrder ==
    /\ [][ \A p \in DOMAIN procs' :
              procs'[p].kind = "query" =>
                  LET new == Stage(procs'[p]) IN
                  IF p \notin DOMAIN procs
                  THEN new \in {"Created", "Error"} /\ decisions' = decisions
                  ELSE LET old == Stage(procs[p]) IN
                       /\ \/ new = old
                          \/ StageNo(new) = StageNo(old) + 1 /\ old # "Persisted"
                          \/ new = "Error" /\ old # "Persisted"
                       /\ (old = "Created" /\ new = "Error")
                              => procs'[p].err = "transport"
                       /\ (old = "Created" /\ new = "Parsed") =>
                              queries'[procs[p].qid].parsed \in
                                  {ParsedData(r) : r \in ParseResponses}
                       /\ DecisionsOf(procs[p].qid)' # DecisionsOf(procs[p].qid)
                              => (old = "Decided" /\ new = "Persisted")
          ]_vars
    /\ [](\A p \in Pids :
             procs[p].kind = "query" =>
                 /\ StageNo(Stage(procs[p])) \in 2..5 =>
                        queries[procs[p].qid].parsed # PyNone
                 /\ Stage(procs[p]) \in {"Decided", "Persisted"} =>
                        "decision" \in DOMAIN procs[p].ddata
                 /\ Stage(procs[p]) = "Persisted" =>
                        /\ Len(DecisionsOf(procs[p].qid)) = 1
                        /\ DecisionsOf(procs[p].qid)[1].decision_status =
                               procs[p].ddata["decision"]
                 /\ Stage(procs[p]) \in {"Created", "Parsed", "Retrieved", "Decided"}
                        => DecisionsOf(procs[p].qid) = <<>>)

\* An attempt whose attribute response was no JSON has reached Persisted
\* with the empty mapping on its Query row.
C16_Witness ==
    \E p \in Pids :
        /\ procs[p].kind = "query"
        /\ Stage(procs[p]) = "Persisted"
        /\ queries[procs[p].qid].parsed = EmptyDict
        /\ procs[p].results # <<>>
        /\ Len(DecisionsOf(procs[p].qid)) = 1

\* C17: the store never holds two Document rows of the same name,
\* whatever the interleaving of upload requests and upload threads.
C17_NamesUnique ==
    \A d1 \in documents : \A d2 \in documents :
        d1.name = d2.name => d1.id = d2.id

\* The rows of the requests that have ended: one Decision row after the
\* 200 response; none, and the Query row in place, after the 500 response.
RowsMatchOutcome ==
    \A p \in Pids :
        (procs[p].kind = "query" /\ Ended(procs[p])) =>
            IF procs[p].resp.status = 200
            THEN /\ Len(DecisionsOf(procs[p].qid)) = 1
                 /\ queries[procs[p].qid].text = procs[p].query
            ELSE /\ procs[p].resp.status = 500
                 /\ DecisionsOf(procs[p].qid) = <<>>
                 /\ procs[p].qid # 0 =>
                        /\ procs[p].qid \in DOMAIN queries
                        /\ queries[procs[p].qid].text = procs[p].query

\* C18: a request that ends with the 500 response has no Decision row,
\* its Query row is in the store, and the step that ends it changes no
\* Decision row; a request that ends with the 200 response has exactly one
\* Decision row; a row once written is never changed or removed.
C18_DecisionOnlyOnSuccess ==
    [][ /\ \A k \in DOMAIN decisions :
              k \in DOMAIN decisions' /\ decisions'[k] = decisions[k]
        /\ \A p \in Pids :
              (procs[p].kind = "query" /\ procs[p].resp = <<>>
                  /\ procs'[p].resp # <<>> /\ procs'[p].resp.status = 500)
              => decisions' = decisions /\ queries' = queries
        /\ RowsMatchOutcome' ]_vars

\* One request has ended with 200 and its Decision row; after that another
\* has failed at the decision step or later, and the row is as it was.
C18_Witness ==
    \E p \in Pids : \E o \in Pids :
        /\ procs[p].kind = "query" /\ procs[o].kind = "query"
        /\ procs[p].pc = "done" /\ procs[p].resp.status = 500
        /\ procs[p].err \in {"TypeError", "KeyError", "store"}
        /\ procs[o].pc = "done" /\ procs[o].resp.status = 200
        /\ Len(decisions) = 1
        /\ decisions[1].query = procs[o].qid
        /\ procs[p].qid \in DOMAIN queries

\* The ingestion thread of task identifier t
TaskThread(t) ==
    procs[CHOOSE q \in Pids : procs[q].kind = "ingest" /\ procs[q].task = t]

\* Every stored progress value is an integer of 0..100, the one its task
\* set last; it is 0 while the task has persisted no clause, and 100 only
\* when the task has persisted every clause of its document, at least one
\* (the rows are in the store unless the Document has been deleted since).
ProgressSound ==
    \A t \in DOMAIN progress :
        LET r == TaskThread(t) IN
        /\ progress[t] \in 0..100
        /\ progress[t] = LastSet(t)
        /\ r.i = 0 => progress[t] = 0
        /\ progress[t] = 100 =>
               /\ r.i = Len(r.clauses)
               /\ r.i > 0
               /\ (\E d \in documents : d.id = r.doc) =>
                      ClausesOf(r.doc) =
                          [k \in 1..r.i |-> [doc |-> r.doc, text |-> r.clauses[k]]]

\* C19: the stored progress value of every task is an integer in [0, 100],
\* never decreases (nor does the value the task sets, across an expiry of
\* its entry), is 0 before the first clause is persisted, and is 100 only
\* when every clause of the document has been persisted.
C19_ProgressMonotone ==
    [][ /\ ProgressSound'
        /\ \A t \in DOMAIN progress :
              /\ t \in DOMAIN progress' => progress'[t] >= progress[t]
              /\ LastSet(t)' >= LastSet(t) ]_vars

\* The entry of a task holds 100 while its rebuild has not finished, and
\* the entry of the other task holds 50.
C19_Witness ==
    \E t \in DOMAIN progress : \E o \in DOMAIN progress :
        /\ progress[t] = 100
        /\ InBuild(TaskThread(t))
        /\ progress[o] = 50

\* C20: no result of semantic_search stands for a padded position, no
\* snapshot position is behind two results, and a search that has returned
\* over an index of N vectors has min(N, k) results.
C20_NoPaddingTranslated ==
    \A p \in Pids :
        procs[p].kind = "query" =>
            LET hits == procs[p].hits IN
            /\ \A j \in 1..Len(hits) : hits[j] >= 0
            /\ \A j \in 1..Len(hits) : \A k \in 1..Len(hits) :
                   hits[j] = hits[k] => j = k
            /\ (SearchReturned(p) /\ procs[p].searched # <<>>) =>
                   Len(procs[p].results) =
                       IF Len(procs[p].searched) < TopK
                       THEN Len(procs[p].searched) ELSE TopK

====
